---- MODULE Spec2Model ----
(***************************************************************************)
(* HireMind AI (src/AI_HR.py): one Streamlit script that extracts the text *)
(* of an uploaded job description (JD) and candidate CV, substitutes both  *)
(* into BASE_PROMPT, sends the prompt to a chat-completion endpoint and    *)
(* renders the returned report as TXT and PDF downloads.                   *)
(*                                                                         *)
(* Python str values are sequences of one-character strings, so that       *)
(* replace / split / strip / endswith / lower are computed character by    *)
(* character as the interpreter computes them.                             *)
(***************************************************************************)
EXTENDS Integers, Sequences, FiniteSets, TLC

VARIABLES
    jd_file,        \* st.file_uploader(key="jd"): an uploaded file or NoFile
    cv_file,        \* st.file_uploader(key="cv"): an uploaded file or NoFile
    secrets,        \* st.secrets: a mapping that may hold "GROQ_API_KEY"
    model_name,     \* sidebar text input "Model"
    button,         \* st.button("Analyze Candidate") of the current script run
    pc,             \* position of the current script run / function call
    extract_calls,  \* extract_text invocations of the current run, in order
    reader_calls,   \* read_pdf / read_docx / read_txt invocations, in order
    jd_text,        \* local jd_text of the Analyze handler
    cv_text,        \* local cv_text of the Analyze handler
    prompt,         \* local prompt of the Analyze handler
    payload,        \* local payload of call_llm
    requests,       \* payloads passed to requests.post in the current call
    responses,      \* responses requests.post returned in the current call
    report,         \* value returned by call_llm / argument of generate_pdf
    ui,             \* widgets the current script run has emitted, in order
    story           \* flowables generate_pdf handed to doc.build

vars == <<jd_file, cv_file, secrets, model_name, button, pc, extract_calls,
          reader_calls, jd_text, cv_text, prompt, payload, requests,
          responses, report, ui, story>>

----------------------------------------------------------------------------
(* Python str primitives                                                   *)

\* characters str.strip()/rstrip() with no argument remove
Whitespace == {" ", "\t", "\n", "\r"}

IsSpace(c) == c \in Whitespace

RECURSIVE rstrip(_)
rstrip(s) ==
    IF s = <<>> THEN <<>>
    ELSE IF IsSpace(s[Len(s)]) THEN rstrip(SubSeq(s, 1, Len(s) - 1))
    ELSE s

RECURSIVE lstrip(_)
lstrip(s) ==
    IF s = <<>> THEN <<>>
    ELSE IF IsSpace(s[1]) THEN lstrip(Tail(s))
    ELSE s

strip(s) == rstrip(lstrip(s))

\* s[i:i+len(pat)] == pat   (i is 1-based)
MatchAt(s, i, pat) ==
    /\ i + Len(pat) - 1 <= Len(s)
    /\ \A k \in 1..Len(pat) : s[i + k - 1] = pat[k]

\* pat in s
Contains(s, pat) == \E i \in 1..(Len(s) + 1) : MatchAt(s, i, pat)

\* s.endswith(suf)
EndsWith(s, suf) ==
    /\ Len(suf) <= Len(s)
    /\ MatchAt(s, Len(s) - Len(suf) + 1, suf)

\* s.replace(old, new): leftmost non-overlapping occurrences, old non-empty
RECURSIVE Replace(_, _, _)
Replace(s, old, new) ==
    IF s = <<>> THEN <<>>
    ELSE IF MatchAt(s, 1, old)
         THEN new \o Replace(SubSeq(s, Len(old) + 1, Len(s)), old, new)
         ELSE <<s[1]>> \o Replace(Tail(s), old, new)

\* s.split(sep) for a one-character sep
RECURSIVE Split(_, _)
Split(s, sep) ==
    IF \A i \in 1..Len(s) : s[i] # sep THEN <<s>>
    ELSE LET i == CHOOSE j \in 1..Len(s) :
                      s[j] = sep /\ \A k \in 1..(j - 1) : s[k] # sep
         IN  <<SubSeq(s, 1, i - 1)>> \o Split(SubSeq(s, i + 1, Len(s)), sep)

\* sep.join(parts)
RECURSIVE Join(_, _)
Join(parts, sep) ==
    IF parts = <<>> THEN <<>>
    ELSE IF Len(parts) = 1 THEN parts[1]
    ELSE parts[1] \o sep \o Join(Tail(parts), sep)

\* str.lower() on the letters that occur in the modelled file names
LowerChar(c) ==
    CASE c = "A" -> "a" [] c = "C" -> "c" [] c = "D" -> "d" [] c = "F" -> "f"
      [] c = "O" -> "o" [] c = "P" -> "p" [] c = "T" -> "t" [] c = "V" -> "v"
      [] c = "X" -> "x" [] OTHER -> c

Lower(s) == [i \in 1..Len(s) |-> LowerChar(s[i])]

\* all strings over alphabet a of length at most n
StringsUpTo(a, n) == UNION {[1..k -> a] : k \in 0..n}

----------------------------------------------------------------------------
(* PDF report: _sanitize_for_pdf, generate_pdf                             *)

AMP  == <<"&", "a", "m", "p", ";">>
LT   == <<"&", "l", "t", ";">>
GT   == <<"&", "g", "t", ";">>

\* a plausible slip: '&' escaped last, so the entities just written are
\* escaped again
_sanitize_amp_last(line) ==
    Replace(Replace(Replace(line, <<"<">>, LT), <<">">>, GT), <<"&">>, AMP)

_sanitize_for_pdf(line) ==
    Replace(Replace(Replace(line, <<"&">>, AMP), <<"<">>, LT), <<">">>, GT)

Paragraph(text, style) == [flowable |-> "Paragraph", text |-> text, style |-> style]

\* Spacer(width, height); height in hundredths of an inch
Spacer(width, height) == [flowable |-> "Spacer", width |-> width, height |-> height]

\* "HireMind AI – Professional HR Screening Report"; the en dash of the
\* source is written "-" here
TitleText ==
    <<"H", "i", "r", "e", "M", "i", "n", "d", " ", "A", "I", " ", "-", " ",
      "P", "r", "o", "f", "e", "s", "s", "i", "o", "n", "a", "l", " ", "H",
      "R", " ", "S", "c", "r", "e", "e", "n", "i", "n", "g", " ", "R", "e",
      "p", "o", "r", "t">>

TitleSpace == 25
LineSpace  == 12

\* the for loop of generate_pdf over report_text.split("\n")
RECURSIVE StoryLoop(_, _)
StoryLoop(lines, acc) ==
    IF lines = <<>> THEN acc
    ELSE LET line == rstrip(lines[1])
         IN  IF strip(line) = <<>>
             THEN StoryLoop(Tail(lines), Append(acc, Spacer(1, LineSpace)))
             ELSE StoryLoop(Tail(lines),
                            Append(acc, Paragraph(_sanitize_for_pdf(line), "Body")))

\* a plausible slip: blank lines skipped instead of turned into spacers
RECURSIVE StoryLoopDropBlank(_, _)
StoryLoopDropBlank(lines, acc) ==
    IF lines = <<>> THEN acc
    ELSE LET line == rstrip(lines[1])
         IN  IF strip(line) = <<>>
             THEN StoryLoopDropBlank(Tail(lines), acc)
             ELSE StoryLoopDropBlank(Tail(lines),
                            Append(acc, Paragraph(_sanitize_for_pdf(line), "Body")))

generate_pdf_drop_blank(report_text) ==
    StoryLoopDropBlank(Split(report_text, "\n"),
              <<Paragraph(TitleText, "Title"), Spacer(1, TitleSpace)>>)

\* the story generate_pdf builds; doc.build(story) turns it into the bytes
generate_pdf(report_text) ==
    StoryLoop(Split(report_text, "\n"),
              <<Paragraph(TitleText, "Title"), Spacer(1, TitleSpace)>>)

----------------------------------------------------------------------------
(* Uploaded files and text extraction: read_pdf, read_docx, read_txt,      *)
(* extract_text                                                            *)

\* file.name and file.getvalue(); the bytes are modelled by what the
\* libraries parse out of them:
\*   pdf  : pages      - page.extract_text() of every page, in page order
\*   docx : paragraphs - p.text of every paragraph;
\*          tables     - tables of rows of cell.text
\*   txt  : bytes      - the bytes, one per character; BadByte is a byte
\*                       that is not valid UTF-8
UploadedFile(name, body) == [name |-> name, body |-> body]

PdfBody(pages) == [fmt |-> "pdf", pages |-> pages]
DocxBody(paragraphs, tables) ==
    [fmt |-> "docx", paragraphs |-> paragraphs, tables |-> tables]
TxtBody(bytes) == [fmt |-> "txt", bytes |-> bytes]

\* file_uploader returns None until a file is chosen
NoFile == [name |-> <<>>, body |-> [fmt |-> "None"]]

BadByte == "0xFF"

NonEmpty(t) == t # <<>>
NonBlank(t) == strip(t) # <<>>
ValidByte(b) == b # BadByte

StripAll(ts) == [i \in 1..Len(ts) |-> strip(ts[i])]

NL == <<"\n">>

read_pdf(file) ==
    strip(Join(SelectSeq(file.body.pages, NonEmpty), NL))

\* " | ".join of the non-blank stripped cells of one row
RowText(row) == Join(StripAll(SelectSeq(row, NonBlank)), <<" ", "|", " ">>)

RECURSIVE TableRows(_)
TableRows(tables) ==
    IF tables = <<>> THEN <<>>
    ELSE [i \in 1..Len(tables[1]) |-> RowText(tables[1][i])] \o TableRows(Tail(tables))

read_docx(file) ==
    LET parts == StripAll(SelectSeq(file.body.paragraphs, NonBlank))
                 \o SelectSeq(TableRows(file.body.tables), NonEmpty)
    IN  strip(Join(parts, NL))

\* bytes.decode("utf-8", errors="ignore").strip()
read_txt(file) == strip(SelectSeq(file.body.bytes, ValidByte))

DotPdf  == <<".", "p", "d", "f">>
DotDocx == <<".", "d", "o", "c", "x">>
DotTxt  == <<".", "t", "x", "t">>

\* a plausible slip: the name is not lower-cased before the suffix tests
extract_text_case_sensitive(file) ==
    LET name == file.name
    IN  IF EndsWith(name, DotPdf)
        THEN [ret |-> read_pdf(file), readers |-> <<"read_pdf">>]
        ELSE IF EndsWith(name, DotDocx)
        THEN [ret |-> read_docx(file), readers |-> <<"read_docx">>]
        ELSE IF EndsWith(name, DotTxt)
        THEN [ret |-> read_txt(file), readers |-> <<"read_txt">>]
        ELSE [ret |-> <<>>, readers |-> <<>>]

\* ret: the returned string; readers: the readers the call invoked
extract_text(file) ==
    LET name == Lower(file.name)
    IN  IF EndsWith(name, DotPdf)
        THEN [ret |-> read_pdf(file), readers |-> <<"read_pdf">>]
        ELSE IF EndsWith(name, DotDocx)
        THEN [ret |-> read_docx(file), readers |-> <<"read_docx">>]
        ELSE IF EndsWith(name, DotTxt)
        THEN [ret |-> read_txt(file), readers |-> <<"read_txt">>]
        ELSE [ret |-> <<>>, readers |-> <<>>]

----------------------------------------------------------------------------
(* Prompt template                                                         *)

JOB_DESCRIPTION ==
    <<"<", "<", "J", "O", "B", "_", "D", "E", "S", "C", "R", "I", "P", "T",
      "I", "O", "N", ">", ">">>
CANDIDATE_CV ==
    <<"<", "<", "C", "A", "N", "D", "I", "D", "A", "T", "E", "_", "C", "V",
      ">", ">">>

\* BASE_PROMPT: the instructions and rubric (lines 23-127, which contain no
\* "<<") stand as the one line "RUBRIC"; the two sections that carry the
\* placeholders are character for character those of the template
BASE_PROMPT ==
    <<"\n", "R", "U", "B", "R", "I", "C", "\n", "\n">>
    \o <<"J", "o", "b", " ", "D", "e", "s", "c", "r", "i", "p", "t", "i", "o",
         "n", ":", "\n">>
    \o JOB_DESCRIPTION
    \o <<"\n", "\n", "C", "a", "n", "d", "i", "d", "a", "t", "e", " ", "C",
         "V", ":", "\n">>
    \o CANDIDATE_CV
    \o <<"\n">>

\* line 293
BuildPrompt(jd, cv) ==
    Replace(Replace(BASE_PROMPT, JOB_DESCRIPTION, jd), CANDIDATE_CV, cv)

----------------------------------------------------------------------------
(* LLM client: call_llm                                                    *)

Temperature == 0
TopP        == 1
Seed        == 42

SystemContent == "You are a strict, evidence-based HR screening analyst."

\* lines 149-160
NewPayload(p, model) ==
    [model       |-> model,
     messages    |-> <<[role |-> "system", content |-> SystemContent],
                       [role |-> "user", content |-> p]>>,
     temperature |-> Temperature,
     top_p       |-> TopP,
     seed        |-> Seed]

\* a plausible slip: the retry payload is rebuilt without top_p as well
PopSeedAndTopP(p) == [k \in DOMAIN p \ {"seed", "top_p"} |-> p[k]]

\* payload.pop("seed", None)
PopSeed(p) == [k \in DOMAIN p \ {"seed"} |-> p[k]]

\* st.secrets.get("GROQ_API_KEY", "")
SecretsGet(s, k, default) == IF k \in DOMAIN s THEN s[k] ELSE default

\* a plausible slip: the credential is not checked
KeyNeverMissing(s) == FALSE

\* lines 140-141: not api_key
MissingKey(s) == SecretsGet(s, "GROQ_API_KEY", "") = ""

\* what requests.post produces: a response (status_code, text, and json: the
\* one-element sequence holding choices[0].message.content, or <<>> when the
\* body has no such content) or an exception (time-out, connection error)
Response(status, text, json) ==
    [kind |-> "response", status_code |-> status, text |-> text, json |-> json]
PostException == [kind |-> "exception", status_code |-> 0, text |-> <<>>, json |-> <<>>]

SeedWord == <<"s", "e", "e", "d">>

\* a plausible slip: any response that mentions the seed is retried
SeedRejectedAnyStatus(r) == Contains(r.text, SeedWord)

\* line 164
SeedRejected(r) == r.status_code = 400 /\ Contains(r.text, SeedWord)

\* r.raise_for_status(): HTTPError for 4xx and 5xx
RaisesForStatus(r) == r.status_code >= 400 /\ r.status_code < 600

\* lines 168-169: the exception call_llm ends with, or "" when it returns
ReturnError(r) ==
    IF RaisesForStatus(r) THEN "HTTPError"
    ELSE IF r.json = <<>> THEN "KeyError"
    ELSE ""

----------------------------------------------------------------------------
(* UI: the script body, lines 254-323                                      *)

Widget(w, b) == [widget |-> w, body |-> b]
DownloadButton(label, data, file_name, mime) ==
    [widget |-> "download_button", label |-> label, data |-> data,
     file_name |-> file_name, mime |-> mime]

PreviewChars == 1500

\* s[:n]
Slice(s, n) == SubSeq(s, 1, IF Len(s) < n THEN Len(s) ELSE n)

\* a plausible slip: the handler goes on unless both files are missing
MissingBoth(jd, cv) == jd = NoFile /\ cv = NoFile

\* line 279: not jd_file or not cv_file
MissingInput(jd, cv) == jd = NoFile \/ cv = NoFile

\* a plausible slip: only the JD text is validated
EmptyExtractionJdOnly(jd, cv) ==
    IF strip(jd) = <<>>
    THEN "Could not extract text from JD. If PDF is scanned image, you need OCR."
    ELSE ""

\* lines 286-291: the error reported, or "" when both texts pass
EmptyExtraction(jd, cv) ==
    IF strip(jd) = <<>>
    THEN "Could not extract text from JD. If PDF is scanned image, you need OCR."
    ELSE IF strip(cv) = <<>>
    THEN "Could not extract text from CV. If PDF is scanned image, you need OCR."
    ELSE ""

\* values of the locals before the script run assigns them
ResetRun ==
    /\ extract_calls' = <<>>
    /\ reader_calls' = <<>>
    /\ jd_text' = <<>>
    /\ cv_text' = <<>>
    /\ prompt' = <<>>
    /\ payload' = <<>>
    /\ requests' = <<>>
    /\ responses' = <<>>
    /\ report' = <<>>
    /\ ui' = <<>>
    /\ story' = <<>>

\* every widget interaction reruns the script from the top; st.button is
\* True only in the run its click started
StartRun(clicked) ==
    /\ pc = "idle"
    /\ pc' = "preview"
    /\ button' = clicked
    /\ ResetRun

----------------------------------------------------------------------------
(* Inputs                                                                  *)

\* documents offered to the two uploaders (type=["pdf", "docx", "txt"])
JdX      == UploadedFile(<<"j", "d", ".", "t", "x", "t">>, TxtBody(<<"X">>))
CvY      == UploadedFile(<<"c", "v", ".", "t", "x", "t">>,
                         TxtBody(<<"Y", BadByte, "\n">>))
TokenCv  == UploadedFile(<<"j", "d", ".", "t", "x", "t">>, TxtBody(CANDIDATE_CV))
TokenJd  == UploadedFile(<<"c", "v", ".", "t", "x", "t">>,
                         TxtBody(<<"s", "e", "e", " ">> \o JOB_DESCRIPTION))
Scanned  == UploadedFile(<<"s", "c", "a", "n", ".", "p", "d", "f">>,
                         PdfBody(<<<<>>, <<>>>>))
BlankTxt == UploadedFile(<<"b", "l", "a", "n", "k", ".", "t", "x", "t">>,
                         TxtBody(<<" ", " ", "\n">>))
CvDocx   == UploadedFile(<<"c", "v", ".", "d", "o", "c", "x">>,
                         DocxBody(<<<<"A">>, <<" ">>, <<"B", " ">>>>,
                                  <<<<<<<<"c", "1">>, <<" ">>, <<"c", "2">>>>>>>>))
CvPdf    == UploadedFile(<<"C", "V", ".", "P", "D", "F">>,
                         PdfBody(<<<<"P", " ">>, <<>>, <<"Q", "\n">>>>))

Uploads == {JdX, CvY, TokenCv, TokenJd, Scanned, BlankTxt, CvDocx, CvPdf}

DefaultModel ==
    <<"l", "l", "a", "m", "a", "-", "3", ".", "1", "-", "8", "b", "-", "i",
      "n", "s", "t", "a", "n", "t">>

Models == {DefaultModel, <<" ", "m", " ">>}

\* st.secrets without the key, with an empty key, with a key
SecretsChoices ==
    {[k \in {} |-> ""], [GROQ_API_KEY |-> ""], [GROQ_API_KEY |-> "gsk_key"]}

\* choices[0].message.content of accepted responses
Contents ==
    {<<" ", "A", "&", "B", "\n", "\n", "<", "C", ">", " ", "\n", "D", " ", " ">>,
     <<"H", "i", "r", "e">>,
     <<>>}

SeedError == <<"p", "r", "o", "p", "e", "r", "t", "y", " ", "s", "e", "e", "d",
               " ", "i", "s", " ", "u", "n", "s", "u", "p", "p", "o", "r", "t",
               "e", "d">>
ModelError == <<"m", "o", "d", "e", "l", " ", "n", "o", "t", " ", "f", "o", "u",
                "n", "d">>

\* what the endpoint may answer to one POST
Outcomes ==
    {Response(200, c, <<c>>) : c \in Contents}
    \cup {Response(200, <<"{", "}">>, <<>>),
          Response(400, SeedError, <<>>),
          Response(400, ModelError, <<>>),
          Response(401, ModelError, <<>>),
          Response(422, SeedError, <<>>),
          Response(500, SeedError, <<>>),
          Response(503, ModelError, <<>>),
          PostException}

----------------------------------------------------------------------------
(* The script run                                                          *)

Init ==
    /\ jd_file = NoFile
    /\ cv_file = NoFile
    /\ secrets \in SecretsChoices
    /\ model_name = DefaultModel
    /\ button = FALSE
    /\ pc = "idle"
    /\ extract_calls = <<>>
    /\ reader_calls = <<>>
    /\ jd_text = <<>>
    /\ cv_text = <<>>
    /\ prompt = <<>>
    /\ payload = <<>>
    /\ requests = <<>>
    /\ responses = <<>>
    /\ report = <<>>
    /\ ui = <<>>
    /\ story = <<>>

\* line 260: the user picks or clears the JD
UploadJD(f) ==
    /\ f # jd_file
    /\ jd_file' = f
    /\ StartRun(FALSE)
    /\ UNCHANGED <<cv_file, secrets, model_name>>

\* line 263: the user picks or clears the CV
UploadCV(f) ==
    /\ f # cv_file
    /\ cv_file' = f
    /\ StartRun(FALSE)
    /\ UNCHANGED <<jd_file, secrets, model_name>>

\* line 256: the user edits the model name
EditModel(m) ==
    /\ m # model_name
    /\ model_name' = m
    /\ StartRun(FALSE)
    /\ UNCHANGED <<jd_file, cv_file, secrets>>

\* line 277: the user presses "Analyze Candidate"
ClickAnalyze ==
    /\ StartRun(TRUE)
    /\ UNCHANGED <<jd_file, cv_file, secrets, model_name>>

\* one branch of the preview expander, lines 266-270 / 271-275
PreviewOf(file, which, missing) ==
    IF file # NoFile
    THEN [calls   |-> <<[site |-> "preview", file |-> which]>>,
          readers |-> extract_text(file).readers,
          widgets |-> <<Widget("markdown", which),
                        Widget("code", Slice(extract_text(file).ret, PreviewChars))>>]
    ELSE [calls |-> <<>>, readers |-> <<>>, widgets |-> <<Widget("write", missing)>>]

\* lines 265-275: the body of the expander runs in every script run
PreviewExpander ==
    /\ pc = "preview"
    /\ LET jd == PreviewOf(jd_file, "jd", "JD not uploaded yet.")
           cv == PreviewOf(cv_file, "cv", "CV not uploaded yet.")
       IN  /\ extract_calls' = extract_calls \o jd.calls \o cv.calls
           /\ reader_calls' = reader_calls \o jd.readers \o cv.readers
           /\ ui' = ui \o jd.widgets \o cv.widgets
    /\ pc' = IF button THEN "analyze" ELSE "idle"
    /\ UNCHANGED <<jd_file, cv_file, secrets, model_name, button, jd_text,
                   cv_text, prompt, payload, requests, responses, report, story>>

\* st.error(msg); st.stop()
StopWithError(msg) ==
    /\ ui' = Append(ui, Widget("error", msg))
    /\ pc' = "idle"

\* lines 279-293: input check, extraction, validation, prompt assembly
AnalyzeHandler ==
    /\ pc = "analyze"
    /\ IF MissingInput(jd_file, cv_file)
       THEN /\ StopWithError("Please upload both JD and CV files.")
            /\ UNCHANGED <<extract_calls, reader_calls, jd_text, cv_text, prompt>>
       ELSE LET jd == extract_text(jd_file)
                cv == extract_text(cv_file)
                err == EmptyExtraction(jd.ret, cv.ret)
            IN  /\ extract_calls' = extract_calls
                                    \o <<[site |-> "analyze", file |-> "jd"],
                                         [site |-> "analyze", file |-> "cv"]>>
                /\ reader_calls' = reader_calls \o jd.readers \o cv.readers
                /\ jd_text' = jd.ret
                /\ cv_text' = cv.ret
                /\ IF err # ""
                   THEN StopWithError(err) /\ UNCHANGED prompt
                   ELSE /\ prompt' = BuildPrompt(jd.ret, cv.ret)
                        /\ pc' = "call_llm"
                        /\ UNCHANGED ui
    /\ UNCHANGED <<jd_file, cv_file, secrets, model_name, button, payload,
                   requests, responses, report, story>>

\* a plausible slip: the except branch reports the error but does not stop
CallFailedNoStop(exc) ==
    /\ ui' = ui \o <<Widget("error", "AI call failed. Check Secrets and Logs."),
                     Widget("exception", exc)>>
    /\ pc' = "render"

\* lines 298-301: call_llm raised exc
CallFailed(exc) ==
    /\ ui' = ui \o <<Widget("error", "AI call failed. Check Secrets and Logs."),
                     Widget("exception", exc)>>
    /\ pc' = "idle"

\* lines 139-160 (called at line 297): credential check, payload
call_llm_begin ==
    /\ pc = "call_llm"
    /\ IF MissingKey(secrets)
       THEN CallFailed("RuntimeError") /\ UNCHANGED payload
       ELSE /\ payload' = NewPayload(prompt, strip(model_name))
            /\ pc' = "post"
            /\ UNCHANGED ui
    /\ UNCHANGED <<jd_file, cv_file, secrets, model_name, button, extract_calls,
                   reader_calls, jd_text, cv_text, prompt, requests, responses,
                   report, story>>

\* lines 162-165: the first POST and the decision to retry
call_llm_post ==
    /\ pc = "post"
    /\ \E r \in Outcomes :
         /\ requests' = Append(requests, payload)
         /\ responses' = Append(responses, r)
         /\ IF r.kind = "exception"
            THEN CallFailed("RequestException") /\ UNCHANGED payload
            ELSE IF SeedRejected(r)
            THEN payload' = PopSeed(payload) /\ pc' = "retry" /\ UNCHANGED ui
            ELSE pc' = "status" /\ UNCHANGED <<payload, ui>>
    /\ UNCHANGED <<jd_file, cv_file, secrets, model_name, button, extract_calls,
                   reader_calls, jd_text, cv_text, prompt, report, story>>

\* line 166: the POST without the seed
call_llm_retry ==
    /\ pc = "retry"
    /\ \E r \in Outcomes :
         /\ requests' = Append(requests, payload)
         /\ responses' = Append(responses, r)
         /\ IF r.kind = "exception"
            THEN CallFailed("RequestException")
            ELSE pc' = "status" /\ UNCHANGED ui
    /\ UNCHANGED <<jd_file, cv_file, secrets, model_name, button, extract_calls,
                   reader_calls, jd_text, cv_text, prompt, payload, report, story>>

\* lines 168-169 and the assignment of line 297
call_llm_return ==
    /\ pc = "status"
    /\ LET r == responses[Len(responses)]
       IN  IF ReturnError(r) # ""
           THEN CallFailed(ReturnError(r)) /\ UNCHANGED report
           ELSE /\ report' = strip(r.json[1])
                /\ pc' = "render"
                /\ UNCHANGED ui
    /\ UNCHANGED <<jd_file, cv_file, secrets, model_name, button, extract_calls,
                   reader_calls, jd_text, cv_text, prompt, payload, requests,
                   responses, story>>

\* lines 303-323: report display, TXT download, PDF download
RenderReport ==
    /\ pc = "render"
    /\ story' = generate_pdf(report)
    /\ ui' = ui \o <<Widget("subheader", "Professional Screening Report"),
                     Widget("write", report),
                     DownloadButton("Download Report (TXT)", report,
                                    "hiremind_report.txt", "text/plain"),
                     DownloadButton("Download Report (PDF)", generate_pdf(report),
                                    "hiremind_report.pdf", "application/pdf")>>
    /\ pc' = "idle"
    /\ UNCHANGED <<jd_file, cv_file, secrets, model_name, button, extract_calls,
                   reader_calls, jd_text, cv_text, prompt, payload, requests,
                   responses, report>>

Next ==
    \/ \E f \in Uploads \cup {NoFile} : UploadJD(f)
    \/ \E f \in Uploads \cup {NoFile} : UploadCV(f)
    \/ \E m \in Models : EditModel(m)
    \/ ClickAnalyze
    \/ PreviewExpander
    \/ AnalyzeHandler
    \/ call_llm_begin
    \/ call_llm_post
    \/ call_llm_retry
    \/ call_llm_return
    \/ RenderReport

Spec == Init /\ [][Next]_vars

----------------------------------------------------------------------------
(* generate_pdf as a function of the report string                         *)

MaxReportLen == 4

PdfAlphabet == {"A", " ", "\n", "&", "<", ">", ";"}

EscapeSample == <<"A", " ", "&", " ", "B", " ", "<", " ", "C", " ", ">", " ", "D">>

PdfInputs ==
    StringsUpTo(PdfAlphabet, MaxReportLen)
    \cup {EscapeSample, <<"R", "&", "a", "m", "p", ";", "D", " ", "\n", "\t", "\n", "<", "b", ">">>}

InitPdf ==
    /\ report \in PdfInputs
    /\ pc = "generate_pdf"
    /\ jd_file = NoFile
    /\ cv_file = NoFile
    /\ secrets = [k \in {} |-> ""]
    /\ model_name = DefaultModel
    /\ button = FALSE
    /\ extract_calls = <<>>
    /\ reader_calls = <<>>
    /\ jd_text = <<>>
    /\ cv_text = <<>>
    /\ prompt = <<>>
    /\ payload = <<>>
    /\ requests = <<>>
    /\ responses = <<>>
    /\ ui = <<>>
    /\ story = <<>>

\* one call generate_pdf(report)
GeneratePdfCall ==
    /\ pc = "generate_pdf"
    /\ story' = generate_pdf(report)
    /\ pc' = "generate_pdf_done"
    /\ UNCHANGED <<jd_file, cv_file, secrets, model_name, button, extract_calls,
                   reader_calls, jd_text, cv_text, prompt, payload, requests,
                   responses, report, ui>>

NextPdf == GeneratePdfCall

SpecPdf == InitPdf /\ [][NextPdf]_vars

----------------------------------------------------------------------------
(* extract_text as a function of the file                                  *)

PdfBodies ==
    {PdfBody(<<>>), PdfBody(<<<<>>, <<>>>>), PdfBody(<<<<"P", " ">>, <<>>, <<"Q", "\n">>>>)}
DocxBodies ==
    {DocxBody(<<>>, <<>>),
     DocxBody(<<<<"A">>, <<>>, <<"B">>>>, <<>>),
     DocxBody(<<<<" ">>, <<"A", " ">>>>, <<<<<<<<"c", "1">>, <<" ">>, <<"c", "2">>>>, <<<<>>>>>>>>)}
TxtBodies ==
    {TxtBody(<<>>), TxtBody(<<" ", "\n">>), TxtBody(<<" ", "Y", BadByte, "Z", "\n">>)}

PdfNames ==
    {<<"a", ".", "p", "d", "f">>, <<"A", ".", "P", "D", "F">>,
     <<"a", ".", "P", "d", "f">>, <<"a", ".", "d", "o", "c", "x", ".", "p", "d", "f">>}
DocxNames ==
    {<<"a", ".", "d", "o", "c", "x">>, <<"A", ".", "D", "O", "C", "X">>}
TxtNames ==
    {<<"a", ".", "t", "x", "t">>, <<"a", ".", "T", "X", "T">>,
     <<"a", ".", "p", "d", "f", ".", "t", "x", "t">>}
OtherNames ==
    {<<"a", ".", "d", "o", "c">>, <<"a", ".", "p", "d", "f", "x">>,
     <<"p", "d", "f">>, <<"a", ".", "t", "x", "t", ".", "b", "a", "k">>, <<>>}

\* documents whose bytes are of the type their name declares, and documents
\* of every type under names of no supported type
ExtractInputs ==
    {UploadedFile(n, b) : n \in PdfNames, b \in PdfBodies}
    \cup {UploadedFile(n, b) : n \in DocxNames, b \in DocxBodies}
    \cup {UploadedFile(n, b) : n \in TxtNames, b \in TxtBodies}
    \cup {UploadedFile(n, b) : n \in OtherNames,
                               b \in PdfBodies \cup DocxBodies \cup TxtBodies}

InitExtract ==
    /\ jd_file \in ExtractInputs
    /\ pc = "extract_text"
    /\ cv_file = NoFile
    /\ secrets = [k \in {} |-> ""]
    /\ model_name = DefaultModel
    /\ button = FALSE
    /\ extract_calls = <<>>
    /\ reader_calls = <<>>
    /\ jd_text = <<>>
    /\ cv_text = <<>>
    /\ prompt = <<>>
    /\ payload = <<>>
    /\ requests = <<>>
    /\ responses = <<>>
    /\ report = <<>>
    /\ ui = <<>>
    /\ story = <<>>

\* one call jd_text = extract_text(jd_file)
ExtractTextCall ==
    /\ pc = "extract_text"
    /\ extract_calls' = <<[site |-> "call", file |-> "jd"]>>
    /\ reader_calls' = extract_text(jd_file).readers
    /\ jd_text' = extract_text(jd_file).ret
    /\ pc' = "extract_text_done"
    /\ UNCHANGED <<jd_file, cv_file, secrets, model_name, button, cv_text,
                   prompt, payload, requests, responses, report, ui, story>>

NextExtract == ExtractTextCall

SpecExtract == InitExtract /\ [][NextExtract]_vars

----------------------------------------------------------------------------
(* Vocabulary of the properties                                            *)

Last(q) == q[Len(q)]

FileAbsent(f) == f.body.fmt = "None"

\* t contains a character that is not whitespace
HasInk(t) == \E i \in 1..Len(t) : t[i] \notin Whitespace

\* pat occurs in s
Occurs(pat, s) ==
    \E i \in 0..(Len(s) - Len(pat)) : SubSeq(s, i + 1, i + Len(pat)) = pat

\* t is s without its leading and trailing whitespace
IsTrimOf(t, s) ==
    IF HasInk(s)
    THEN \E i \in 1..Len(s), j \in 1..Len(s) :
            /\ i <= j
            /\ t = SubSeq(s, i, j)
            /\ s[i] \notin Whitespace
            /\ s[j] \notin Whitespace
            /\ \A k \in 1..Len(s) : (k < i \/ k > j) => s[k] \in Whitespace
    ELSE t = <<>>

WidgetsOf(w) == {i \in 1..Len(ui) : ui[i].widget = w}

ErrorReported == WidgetsOf("error") # {}

\* the report display or a download has been emitted, or a PDF was rendered
ReportProduced ==
    \/ WidgetsOf("subheader") # {}
    \/ WidgetsOf("download_button") # {}
    \/ story # <<>>

\* call_llm has been entered in this run and has ended
CallOver == prompt # <<>> /\ pc \in {"render", "idle"}

\* call_llm ended by raising exc
CallRaised(exc) ==
    /\ pc = "idle"
    /\ ui # <<>>
    /\ Last(ui).widget = "exception"
    /\ Last(ui).body = exc
    /\ ~ReportProduced

IsHttpResponse(r) == r.kind = "response"
Success(r) == IsHttpResponse(r) /\ r.status_code \in 200..299
Accepted(r) == Success(r) /\ r.json # <<>>

\* the backend's rejection of the seed as the code recognises it
BadRequestMentioningSeed(r) ==
    IsHttpResponse(r) /\ r.status_code = 400 /\ Occurs(SeedWord, r.text)

\* a client error (any 4xx status) whose body mentions the seed
ClientErrorMentioningSeed(r) ==
    IsHttpResponse(r) /\ r.status_code \in 400..499 /\ Occurs(SeedWord, r.text)

\* q is p with only the seed field removed
SeedRemoved(q, p) ==
    /\ "seed" \in DOMAIN p
    /\ DOMAIN q = DOMAIN p \ {"seed"}
    /\ {"model", "messages", "temperature", "top_p"} \subseteq DOMAIN q
    /\ \A k \in DOMAIN q : q[k] = p[k]

\* the retry protocol of call_llm for a given notion of seed rejection
RetryProtocol(Rejected(_)) ==
    /\ requests # <<>> => "seed" \in DOMAIN requests[1] /\ requests[1].seed = Seed
    /\ (CallOver /\ responses # <<>> /\ Rejected(responses[1])) =>
          /\ Len(requests) = 2
          /\ SeedRemoved(requests[2], requests[1])
          /\ Accepted(responses[2]) =>
                /\ ~ErrorReported
                /\ IsTrimOf(report, responses[2].json[1])
                /\ pc = "idle" => ReportProduced

----------------------------------------------------------------------------
(* C1 - seed retry                                                         *)

----------------------------------------------------------------------------
(* C2 - no retry after any other failure                                   *)

\* C2: a non-success status that is not the seed rejection makes call_llm
\* raise with no further request: one request after a non-seed failure of
\* the first, two after a failure of the retry, never a third.
C2_NoFurtherRequest ==
    /\ Len(requests) <= 2
    /\ Len(responses) <= Len(requests)
    /\ Len(requests) = 2 => BadRequestMentioningSeed(responses[1])
    /\ (CallOver /\ responses # <<>>) =>
          /\ (IsHttpResponse(responses[1]) /\ ~Success(responses[1])
              /\ ~BadRequestMentioningSeed(responses[1])) =>
                 Len(requests) = 1 /\ CallRaised("HTTPError")
          /\ (Len(responses) = 2 /\ IsHttpResponse(responses[2])
              /\ ~Success(responses[2])) =>
                 Len(requests) = 2 /\ CallRaised("HTTPError")

C2_Witness ==
    /\ CallOver
    /\ Len(requests) = 2
    /\ IsHttpResponse(responses[2])
    /\ responses[2].status_code = 400
    /\ BadRequestMentioningSeed(responses[2])
    /\ CallRaised("HTTPError")

----------------------------------------------------------------------------
(* C3 - missing credential                                                 *)

CredentialMissing ==
    \/ "GROQ_API_KEY" \notin DOMAIN secrets
    \/ secrets["GROQ_API_KEY"] = ""

\* C3: with the credential absent or empty no request is ever issued, and a
\* call of call_llm ends with the configuration error.
C3_NoRequestWithoutKey ==
    CredentialMissing =>
        /\ requests = <<>>
        /\ responses = <<>>
        /\ pc \notin {"post", "retry", "status", "render"}
        /\ CallOver => CallRaised("RuntimeError")

C3_Witness ==
    /\ "GROQ_API_KEY" \notin DOMAIN secrets
    /\ CallOver
    /\ CallRaised("RuntimeError")
    /\ requests = <<>>

----------------------------------------------------------------------------
(* C4 - empty extraction                                                   *)

\* C4: call_llm is entered only when both extracted texts contain a
\* non-whitespace character; when either is empty or whitespace-only the
\* run reports an error and stops with no prompt and no request.
C4_EmptyExtractionHalts ==
    /\ (prompt # <<>> \/ requests # <<>>
        \/ pc \in {"call_llm", "post", "retry", "status", "render"}) =>
          /\ HasInk(jd_text) /\ jd_text = extract_text(jd_file).ret
          /\ HasInk(cv_text) /\ cv_text = extract_text(cv_file).ret
    /\ (/\ button
        /\ pc \notin {"preview", "analyze"}
        /\ ~FileAbsent(jd_file) /\ ~FileAbsent(cv_file)
        /\ ~(HasInk(extract_text(jd_file).ret) /\ HasInk(extract_text(cv_file).ret))) =>
          /\ pc = "idle"
          /\ prompt = <<>>
          /\ requests = <<>>
          /\ WidgetsOf("exception") = {}
          /\ ~ReportProduced
          /\ Last(ui).widget = "error"

C4_Witness ==
    /\ button
    /\ pc = "idle"
    /\ jd_file = JdX
    /\ cv_file = Scanned
    /\ jd_text = <<"X">>
    /\ cv_text = <<>>
    /\ prompt = <<>>
    /\ Last(ui).widget = "error"

----------------------------------------------------------------------------
(* C5 - missing input                                                      *)

AnalyzeWithMissingInput ==
    /\ button
    /\ pc \notin {"preview", "analyze"}
    /\ FileAbsent(jd_file) \/ FileAbsent(cv_file)

\* C5 as stated: when a document is absent at the Analyze action an error
\* is reported and extract_text is invoked on no document in that run.
C5_NoExtractionInRun ==
    AnalyzeWithMissingInput =>
        /\ pc = "idle"
        /\ Last(ui).widget = "error"
        /\ extract_calls = <<>>

PresentSlots ==
    (IF FileAbsent(jd_file) THEN <<>> ELSE <<"jd">>)
    \o (IF FileAbsent(cv_file) THEN <<>> ELSE <<"cv">>)

\* C5 (amended): when a document is absent at the Analyze action an error
\* is reported and the handler stops before its extraction: the handler
\* invokes extract_text on no document, and the only extract_text calls of
\* that run are the preview expander's, one per document that is present.
C5_HandlerExtractsNothing ==
    AnalyzeWithMissingInput =>
        /\ pc = "idle"
        /\ Last(ui).widget = "error"
        /\ \A i \in 1..Len(extract_calls) : extract_calls[i].site = "preview"
        /\ [i \in 1..Len(extract_calls) |-> extract_calls[i].file] = PresentSlots
        /\ prompt = <<>>
        /\ requests = <<>>
        /\ ~ReportProduced

C5_Witness ==
    /\ AnalyzeWithMissingInput
    /\ jd_file = CvDocx
    /\ FileAbsent(cv_file)
    /\ extract_calls = <<[site |-> "preview", file |-> "jd"]>>
    /\ reader_calls = <<"read_docx">>
    /\ Last(ui).widget = "error"

----------------------------------------------------------------------------
(* C6 - prompt assembly                                                    *)

\* C6: every prompt passed to call_llm contains neither placeholder token
\* and contains the JD text and the CV text.
C6_PromptSubstituted ==
    prompt # <<>> =>
        /\ ~Occurs(JOB_DESCRIPTION, prompt)
        /\ ~Occurs(CANDIDATE_CV, prompt)
        /\ Occurs(jd_text, prompt)
        /\ Occurs(cv_text, prompt)
        /\ \A i \in 1..Len(requests) : requests[i].messages[2].content = prompt

----------------------------------------------------------------------------
(* C7 - escaping of report lines                                           *)

Entity(c) ==
    CASE c = "&" -> AMP [] c = "<" -> LT [] c = ">" -> GT [] OTHER -> <<c>>

\* every character of s replaced by its entity
RECURSIVE Escaped(_)
Escaped(s) == IF s = <<>> THEN <<>> ELSE Entity(s[1]) \o Escaped(Tail(s))

\* t has no '<', no '>' and no '&' but the one that starts an entity
NoRawMarkup(t) ==
    \A i \in 1..Len(t) :
        /\ t[i] \notin {"<", ">"}
        /\ t[i] = "&" => \E e \in {AMP, LT, GT} :
                            i + Len(e) - 1 <= Len(t) /\ SubSeq(t, i, i + Len(e) - 1) = e

\* s without its trailing whitespace
RECURSIVE TrimRight(_)
TrimRight(s) ==
    IF s # <<>> /\ s[Len(s)] \in Whitespace
    THEN TrimRight([i \in 1..(Len(s) - 1) |-> s[i]])
    ELSE s

ReportLines == Split(report, "\n")

\* C7: the paragraph of every non-blank report line holds the line with
\* each '&', '<', '>' replaced by its entity, and no raw markup character.
C7_ParagraphsEscaped ==
    pc = "generate_pdf_done" =>
        \A k \in 1..Len(ReportLines) :
            HasInk(ReportLines[k]) =>
                /\ k + 2 <= Len(story)
                /\ story[k + 2].flowable = "Paragraph"
                /\ story[k + 2].text = Escaped(TrimRight(ReportLines[k]))
                /\ NoRawMarkup(story[k + 2].text)

C7_Witness ==
    /\ pc = "generate_pdf_done"
    /\ report = EscapeSample
    /\ story[3].text =
         <<"A", " ", "&", "a", "m", "p", ";", " ", "B", " ", "&", "l", "t", ";",
           " ", "C", " ", "&", "g", "t", ";", " ", "D">>

----------------------------------------------------------------------------
(* C8 - one flowable per report line                                       *)

Count(q, Test(_)) == Cardinality({i \in 1..Len(q) : Test(q[i])})

IsNewline(c) == c = "\n"
IsSpacer(f) == f.flowable = "Spacer"
IsBlankLine(l) == ~HasInk(l)

\* C8: the story is the title paragraph, its spacer, then one flowable per
\* newline-delimited line in order: a spacing unit for a line that is empty
\* after trimming, one body paragraph otherwise; so the spacing units are
\* one more than the blank lines.
C8_OneFlowablePerLine ==
    pc = "generate_pdf_done" =>
        /\ Len(ReportLines) = 1 + Count(report, IsNewline)
        /\ Len(story) = 2 + Len(ReportLines)
        /\ story[1] = [flowable |-> "Paragraph", text |-> TitleText, style |-> "Title"]
        /\ story[2] = [flowable |-> "Spacer", width |-> 1, height |-> TitleSpace]
        /\ \A k \in 1..Len(ReportLines) :
              IF TrimRight(ReportLines[k]) = <<>>
              THEN IsSpacer(story[k + 2]) /\ story[k + 2].height = LineSpace
              ELSE /\ story[k + 2].flowable = "Paragraph"
                   /\ story[k + 2].style = "Body"
        /\ Count(story, IsSpacer) = 1 + Count(ReportLines, IsBlankLine)

C8_Witness ==
    /\ pc = "generate_pdf_done"
    /\ report = <<"A", "\n", " ", "\n">>
    /\ Len(story) = 5
    /\ Count(story, IsSpacer) = 3

----------------------------------------------------------------------------
(* C9 - dispatch of extract_text                                           *)

\* the last n characters of s
Suffix(s, n) == IF Len(s) < n THEN s ELSE SubSeq(s, Len(s) - n + 1, Len(s))

IsStr(t) == DOMAIN t = 1..Len(t)

----------------------------------------------------------------------------
(* C10 - outputs only after a successful call                              *)

\* C10: the report display and the downloads exist only after call_llm
\* returned; once an error is reported the run has stopped and nothing is
\* displayed, downloaded or rendered; the TXT download is the string
\* call_llm returned and the PDF is rendered from it.
C10_OutputsOnlyAfterSuccess ==
    /\ ErrorReported =>
          /\ pc = "idle"
          /\ ~ReportProduced
          /\ Last(ui).widget \in {"error", "exception"}
    /\ ReportProduced =>
          /\ pc = "idle"
          /\ responses # <<>>
          /\ Accepted(Last(responses))
          /\ IsTrimOf(report, Last(responses).json[1])
          /\ Len(ui) >= 4
          /\ ui[Len(ui) - 2].widget = "write"
          /\ ui[Len(ui) - 2].body = report
          /\ ui[Len(ui) - 1].widget = "download_button"
          /\ ui[Len(ui) - 1].file_name = "hiremind_report.txt"
          /\ ui[Len(ui) - 1].data = report
          /\ Last(ui).widget = "download_button"
          /\ Last(ui).file_name = "hiremind_report.pdf"
          /\ Last(ui).data = story
          /\ story = generate_pdf(report)
          /\ Cardinality(WidgetsOf("download_button")) = 2

C10_Witness ==
    /\ pc = "idle"
    /\ ReportProduced
    /\ report = <<"A", "&", "B", "\n", "\n", "<", "C", ">", " ", "\n", "D">>
    /\ ui[Len(ui) - 1].data = report
    /\ Len(story) = 6

====
